---- MODULE Spec2Model ----
(***************************************************************************)
(* Model of the RAMS generator (src/app.py): the POST /generate handler,   *)
(* its normalisation of the form fields, and build_pdf's assembly of the   *)
(* story (the ordered list of document blocks).                            *)
(*                                                                         *)
(* A Python str is a sequence of pieces.  A character the user can type is *)
(* a one-character piece; a literal of the program (a heading, a canned    *)
(* default) is a single piece holding the whole literal.  No literal of    *)
(* the program can be spelled with the input alphabet Chars, so equality   *)
(* of two such sequences is equality of the Python strings.                *)
(***************************************************************************)
EXTENDS Integers, Sequences, FiniteSets, TLC

VARIABLES form, pc, today, ticks, readDate, data, story, buf, response

vars == <<form, pc, today, ticks, readDate, data, story, buf, response>>

----------------------------------------------------------------------------
(* Bounds of the model.                                                    *)

MaxLen == 4
MaxScalarLen == 2
MaxTicks == 1

----------------------------------------------------------------------------
(* The input alphabet.                                                     *)

SP == " "
LF == "\n"
CR == "\r"
BAR == "|"

Chars == {"a", "b", SP, LF, CR, BAR}

\* str.isspace() on the alphabet: what str.strip() removes.
Whitespace == {SP, LF, CR}

\* The line boundaries of str.splitlines() on the alphabet.
LineBreaks == {LF, CR}

EMPTY == <<>>

----------------------------------------------------------------------------
(* Python's string methods, computed as CPython computes them.             *)

RECURSIVE lstrip(_)
lstrip(s) ==
    IF s # EMPTY /\ Head(s) \in Whitespace THEN lstrip(Tail(s)) ELSE s

RECURSIVE rstrip(_)
rstrip(s) ==
    IF s # EMPTY /\ s[Len(s)] \in Whitespace
    THEN rstrip(SubSeq(s, 1, Len(s) - 1))
    ELSE s

strip(s) == rstrip(lstrip(s))

\* The index of the first line boundary of s at or after j, Len(s)+1 if none.
RECURSIVE eol(_, _)
eol(s, j) ==
    IF j <= Len(s) /\ s[j] \notin LineBreaks THEN eol(s, j + 1) ELSE j

\* str.splitlines(): "\r\n" is one boundary, and a final boundary opens no
\* further line.
RECURSIVE splitlines(_)
splitlines(s) ==
    IF s = EMPTY THEN <<>>
    ELSE LET e == eol(s, 1)
             n == IF e > Len(s) THEN e
                  ELSE IF s[e] = CR /\ e + 1 <= Len(s) /\ s[e + 1] = LF
                       THEN e + 2
                       ELSE e + 1
         IN  <<SubSeq(s, 1, e - 1)>> \o splitlines(SubSeq(s, n, Len(s)))

\* The index of the first sep of s at or after j, Len(s)+1 if none.
RECURSIVE find(_, _, _)
find(s, sep, j) ==
    IF j <= Len(s) /\ s[j] # sep THEN find(s, sep, j + 1) ELSE j

\* str.split(sep) for a one-character sep: always at least one part.
RECURSIVE split(_, _)
split(s, sep) ==
    LET e == find(s, sep, 1)
    IN  IF e > Len(s) THEN <<s>>
        ELSE <<SubSeq(s, 1, e - 1)>> \o split(SubSeq(s, e + 1, Len(s)), sep)

\* [x.strip() for x in xs]
StripAll(xs) == [i \in 1..Len(xs) |-> strip(xs[i])]

\* a or b, on strings
Or(a, b) == IF a # EMPTY THEN a ELSE b

\* str(i) for i >= 0
Digit(d) == <<"0", "1", "2", "3", "4", "5", "6", "7", "8", "9">>[d + 1]

RECURSIVE str(_)
str(i) == IF i < 10 THEN <<Digit(i)>> ELSE str(i \div 10) \o <<Digit(i % 10)>>

\* zero-padded decimal of width w
RECURSIVE pad(_, _)
pad(i, w) == IF w = 0 THEN <<>> ELSE pad(i \div 10, w - 1) \o <<Digit(i % 10)>>

\* date.isoformat(): YYYY-MM-DD
isoformat(d) == pad(d.year, 4) \o <<"-">> \o pad(d.month, 2) \o <<"-">> \o pad(d.day, 2)

----------------------------------------------------------------------------
(* The literals of the program.                                            *)

DISCLAIMER ==
    <<"Disclaimer: This RAMS document is generated for guidance only and does not constitute legal advice. The contractor/company is responsible for reviewing, amending, and ensuring the RAMS is suitable for the specific job, site rules, client requirements, and UK legislation before use.">>

UK_NOTES ==
    <<"Typical UK context (review for your job): Health & Safety at Work etc. Act 1974, Management of Health and Safety at Work Regulations 1999, Personal Protective Equipment at Work Regulations 2022, COSHH 2002 (if chemicals), Work at Height Regulations 2005 (if applicable).">>

NA == <<"N/A">>

REVIEW_CONTROLS == <<"Review and add suitable controls for this site/task.">>

WORKERS_OTHERS == <<"Workers/others">>

PPE_DEFAULT == <<"Safety boots, gloves, eye protection (edit as required).">>

EMERGENCY_DEFAULT ==
    <<"Follow site/client emergency plan. Call 999 in an emergency. Identify assembly point and first aid arrangements.">>

SIGNATURE_LINE == <<"______________________________">>

\* build_pdf's canned method steps.
DefaultSteps ==
    << <<"Arrive on site, sign in, review site rules, emergency arrangements, and permits (if required).">>,
       <<"Complete a site-specific check: access/egress, work area condition, nearby hazards and public interface.">>,
       <<"Set up work area: barriers/signage if needed; keep walkways clear; maintain good housekeeping.">>,
       <<"Inspect tools/equipment before use; do not use damaged equipment; follow manufacturer instructions.">>,
       <<"Carry out the work as described, communicate with others on site, and manage waste safely.">>,
       <<"Leave area clean, remove barriers when safe, sign out, and report any incidents/near misses.">> >>

\* build_pdf's canned hazard rows.
DefaultHazardRows ==
    << << <<"Slips/trips/falls">>, <<"Workers / others">>,
          <<"Good housekeeping; clear walkways; suitable footwear; signage if needed.">> >>,
       << <<"Manual handling">>, <<"Workers">>,
          <<"Use safe lifting technique; team lift; use trolleys; avoid overloading.">> >>,
       << <<"Tools/equipment">>, <<"Workers">>,
          <<"Pre-use checks; correct tool for job; PPE; trained/competent users.">> >>,
       << <<"Electric shock (if applicable)">>, <<"Workers / others">>,
          <<"Isolate where required; competent person; test equipment; keep area dry.">> >>,
       << <<"Working at height (if applicable)">>, <<"Workers / others">>,
          <<"Suitable access equipment; secure footing; do not overreach; exclusion zone below.">> >> >>

RA_HEADER == << <<"Hazard">>, <<"Who might be harmed">>, <<"Controls / precautions">> >>

----------------------------------------------------------------------------
(* _lines and _parse_hazards.                                              *)

NonBlank(ln) == strip(ln) # EMPTY

\* _lines keeping each line as it stands: [ln for ln in ... if ln.strip()]
Lines_Unstripped(text) == SelectSeq(splitlines(text), NonBlank)

\* [ln.strip() for ln in (text or "").splitlines() if ln.strip()]
_lines(text) == StripAll(SelectSeq(splitlines(text), NonBlank))

\* HazardRow with parts = ln.split("|"), the parts not stripped.
HazardRow_PartsUnstripped(ln) ==
    LET parts == split(ln, BAR)
    IN  IF Len(parts) >= 3 THEN SubSeq(parts, 1, 3)
        ELSE IF Len(parts) = 2 THEN <<parts[1], parts[2], REVIEW_CONTROLS>>
        ELSE <<ln, WORKERS_OTHERS, REVIEW_CONTROLS>>

\* HazardRow without the branch for two parts.
HazardRow_NoTwoBranch(ln) ==
    LET parts == StripAll(split(ln, BAR))
    IN  IF Len(parts) >= 3 THEN SubSeq(parts, 1, 3)
        ELSE <<ln, WORKERS_OTHERS, REVIEW_CONTROLS>>

\* HazardRow whose fallback names the people as the canned rows do.
HazardRow_SpacedWorkers(ln) ==
    LET parts == StripAll(split(ln, BAR))
    IN  IF Len(parts) >= 3 THEN SubSeq(parts, 1, 3)
        ELSE IF Len(parts) = 2 THEN <<parts[1], parts[2], REVIEW_CONTROLS>>
        ELSE <<ln, <<"Workers / others">>, REVIEW_CONTROLS>>

\* The row _parse_hazards appends for one line ln of _lines(text).
HazardRow(ln) ==
    LET parts == StripAll(split(ln, BAR))
    IN  IF Len(parts) >= 3 THEN SubSeq(parts, 1, 3)
        ELSE IF Len(parts) = 2 THEN <<parts[1], parts[2], REVIEW_CONTROLS>>
        ELSE <<ln, WORKERS_OTHERS, REVIEW_CONTROLS>>

_parse_hazards(text) ==
    LET lines == _lines(text) IN [i \in 1..Len(lines) |-> HazardRow(lines[i])]

----------------------------------------------------------------------------
(* The blocks of reportlab.platypus a story is made of.                    *)

Paragraph(text, style) == [kind |-> "Paragraph", text |-> text, style |-> style]

Spacer(w, h) == [kind |-> "Spacer", width |-> w, height |-> h]

\* tstyle names the TableStyle set on the table: "keyvalue" for the spanned
\* black header with bold keys, "grid" for the black header row over a grid.
Table(rows, colWidths, tstyle) ==
    [kind |-> "Table", rows |-> rows, colWidths |-> colWidths, tstyle |-> tstyle]

Heading(label) == Paragraph(<<"<b>", label, "</b>">>, "Heading2")

Body(text) == Paragraph(text, "BodyText")

----------------------------------------------------------------------------
(* build_pdf: what it appends to the story, section by section.            *)

\* The en dash of the source literal is written "-" here: the module is ASCII.
TITLE == "RAMS - Risk Assessment & Method Statement"

\* Lines 58-100: the title, the job-details table, scope, PPE, equipment.
FrontBlocks(d) ==
    << Paragraph(<<"<b>", TITLE, "</b>">>, "Title"),
       Spacer(1, 10),
       Table(<< << <<"Job Details">>, EMPTY >>,
                << <<"Company">>, d.company >>,
                << <<"Job title">>, d.job_title >>,
                << <<"Location">>, d.location >>,
                << <<"Date">>, d.job_date >>,
                << <<"No. of workers">>, d.workers >>,
                << <<"Supervisor / Responsible person">>, d.supervisor >>,
                << <<"Client / Site contact (optional)">>, d.site_contact >> >>,
             <<160, 340>>, "keyvalue"),
       Spacer(1, 12),
       Heading("Scope of Works / Description"),
       Body(Or(d.description, NA)),
       Spacer(1, 10),
       Heading("PPE Required"),
       Body(Or(d.ppe, PPE_DEFAULT)),
       Spacer(1, 8),
       Heading("Tools / Equipment / Materials"),
       Body(Or(d.equipment, NA)),
       Spacer(1, 12) >>

\* Steps without the canned list.
Steps_NoFallback(d) == _lines(d.method_steps)

\* Lines 104-113: the steps, or the canned ones when there are none.
Steps(d) ==
    LET steps == _lines(d.method_steps)
    IN  IF steps = <<>> THEN DefaultSteps ELSE steps

\* Line 115: f"{i}. {s}"
StepParagraph(i, s) == Body(str(i) \o <<". ">> \o s)

\* Lines 114-115: for i, s in enumerate(steps, start=1)
StepParagraphs(steps) == [i \in 1..Len(steps) |-> StepParagraph(i, steps[i])]

\* Lines 103-116: the method statement.
MethodBlocks(d) ==
    << Heading("Method Statement (How the work will be done safely)") >>
    \o StepParagraphs(Steps(d))
    \o << Spacer(1, 12) >>

\* HazardRows without the canned rows.
HazardRows_NoFallback(d) == _parse_hazards(d.hazards)

\* Lines 120-128: the parsed rows, or the canned ones when there are none.
HazardRows(d) ==
    LET hazard_rows == _parse_hazards(d.hazards)
    IN  IF hazard_rows = <<>> THEN DefaultHazardRows ELSE hazard_rows

\* Lines 119-143: the risk assessment.
HazardBlocks(d) ==
    << Heading("Risk Assessment (Hazards & Control Measures)"),
       Table(<<RA_HEADER>> \o HazardRows(d), <<140, 140, 220>>, "grid"),
       Spacer(1, 12) >>

\* TailBlocks with the disclaimer ahead of the compliance notes.
TailBlocks_DisclaimerFirst(d) ==
    << Heading("Emergency Arrangements"),
       Body(Or(d.emergency, EMERGENCY_DEFAULT)),
       Spacer(1, 10),
       Heading("Disclaimer"),
       Body(DISCLAIMER),
       Spacer(1, 10),
       Heading("Compliance Notes"),
       Body(UK_NOTES),
       Spacer(1, 12),
       Table(<< << <<"Sign-off">>, EMPTY >>,
                << <<"Prepared by (name)">>, d.prepared_by >>,
                << <<"Signature">>, SIGNATURE_LINE >>,
                << <<"Date">>, d.job_date >>,
                << <<"Reviewed by (client/site)">>, SIGNATURE_LINE >> >>,
             <<160, 340>>, "keyvalue") >>

\* Lines 146-178: emergency arrangements, compliance notes, disclaimer, sign-off.
TailBlocks(d) ==
    << Heading("Emergency Arrangements"),
       Body(Or(d.emergency, EMERGENCY_DEFAULT)),
       Spacer(1, 10),
       Heading("Compliance Notes"),
       Body(UK_NOTES),
       Spacer(1, 10),
       Heading("Disclaimer"),
       Body(DISCLAIMER),
       Spacer(1, 12),
       Table(<< << <<"Sign-off">>, EMPTY >>,
                << <<"Prepared by (name)">>, d.prepared_by >>,
                << <<"Signature">>, SIGNATURE_LINE >>,
                << <<"Date">>, d.job_date >>,
                << <<"Reviewed by (client/site)">>, SIGNATURE_LINE >> >>,
             <<160, 340>>, "keyvalue") >>

\* doc.build(story) into buf, an A4 document with 36pt margins.  What the
\* library writes is not modelled beyond the story it lays out.
Build(s) == [pagesize |-> "A4", margin |-> 36, story |-> s]

----------------------------------------------------------------------------
(* generate: the form fields to the data dict (lines 290-305).             *)

Fields ==
    {"company", "job_title", "location", "job_date", "workers", "supervisor",
     "site_contact", "description", "ppe", "equipment", "method_steps",
     "hazards", "emergency", "prepared_by"}

\* Normalize with workers left as typed.
Normalize_WorkersNoDefault(f, now) ==
    [company      |-> strip(f.company),
     job_title    |-> strip(f.job_title),
     location     |-> strip(f.location),
     job_date     |-> Or(strip(f.job_date), isoformat(now)),
     workers      |-> strip(f.workers),
     supervisor   |-> Or(strip(f.supervisor), NA),
     site_contact |-> Or(strip(f.site_contact), NA),
     description  |-> strip(f.description),
     ppe          |-> strip(f.ppe),
     equipment    |-> strip(f.equipment),
     method_steps |-> strip(f.method_steps),
     hazards      |-> strip(f.hazards),
     emergency    |-> strip(f.emergency),
     prepared_by  |-> Or(strip(f.prepared_by), NA)]

\* Normalize that dates every document today.
Normalize_DateAlwaysToday(f, now) ==
    [company      |-> strip(f.company),
     job_title    |-> strip(f.job_title),
     location     |-> strip(f.location),
     job_date     |-> isoformat(now),
     workers      |-> Or(strip(f.workers), NA),
     supervisor   |-> Or(strip(f.supervisor), NA),
     site_contact |-> Or(strip(f.site_contact), NA),
     description  |-> strip(f.description),
     ppe          |-> strip(f.ppe),
     equipment    |-> strip(f.equipment),
     method_steps |-> strip(f.method_steps),
     hazards      |-> strip(f.hazards),
     emergency    |-> strip(f.emergency),
     prepared_by  |-> Or(strip(f.prepared_by), NA)]

Normalize(f, now) ==
    [company      |-> strip(f.company),
     job_title    |-> strip(f.job_title),
     location     |-> strip(f.location),
     job_date     |-> Or(strip(f.job_date), isoformat(now)),
     workers      |-> Or(strip(f.workers), NA),
     supervisor   |-> Or(strip(f.supervisor), NA),
     site_contact |-> Or(strip(f.site_contact), NA),
     description  |-> strip(f.description),
     ppe          |-> strip(f.ppe),
     equipment    |-> strip(f.equipment),
     method_steps |-> strip(f.method_steps),
     hazards      |-> strip(f.hazards),
     emergency    |-> strip(f.emergency),
     prepared_by  |-> Or(strip(f.prepared_by), NA)]

\* Lines 308-312: the StreamingResponse around the bytes.
StreamingResponse(pdf) ==
    [media_type |-> "application/pdf",
     disposition |-> "attachment; filename=\"RAMS.pdf\"",
     body |-> pdf]

----------------------------------------------------------------------------
(* The clock behind date.today().                                          *)

IsLeap(y) == (y % 4 = 0 /\ y % 100 # 0) \/ y % 400 = 0

DaysIn(y, m) ==
    IF m = 2 THEN (IF IsLeap(y) THEN 29 ELSE 28)
    ELSE IF m \in {4, 6, 9, 11} THEN 30 ELSE 31

NextDay(d) ==
    IF d.day < DaysIn(d.year, d.month)
    THEN [year |-> d.year, month |-> d.month, day |-> d.day + 1]
    ELSE IF d.month < 12
         THEN [year |-> d.year, month |-> d.month + 1, day |-> 1]
         ELSE [year |-> d.year + 1, month |-> 1, day |-> 1]

StartDate == [year |-> 2026, month |-> 12, day |-> 31]

NoDate == [year |-> 0, month |-> 0, day |-> 0]

----------------------------------------------------------------------------
(* The requests the model serves.                                          *)

\* Every string over Chars of length at most n.
Text(n) == UNION {[1..k -> Chars] : k \in 0..n}

\* Longer inputs: padded segments, CRLF line ends, blank lines, extra segments.
Examples ==
    { <<"a", SP, BAR, SP, "b", SP, BAR, SP, "a", SP, "b">>,
      <<SP, "a", BAR, "b", SP, CR, LF, SP, CR, LF, "b", SP, "a", LF>>,
      <<"a", BAR, "b", SP, BAR, SP, "b", BAR, "a", LF, "b", BAR, BAR, LF, "a", "b">>,
      <<"b", CR, SP, "a", LF, LF, "b", CR, LF, "a", SP, SP, "b", SP, CR, LF>> }

\* What the other fields of a form hold.
Fillers == {EMPTY, <<SP, "b">>}

TextFields == {"method_steps", "hazards"}

FormWith(f, s, fill) == [g \in Fields |-> IF g = f THEN s ELSE fill]

\* Every short text in one multi-line field, the other fields empty; the
\* examples in one multi-line field, the other fields empty or filled; every
\* short string in one other field, the rest empty or filled.
Forms ==
    {FormWith(f, s, EMPTY) : f \in TextFields, s \in Text(MaxLen)}
    \cup
    {FormWith(f, s, fill) : f \in TextFields, s \in Examples, fill \in Fillers}
    \cup
    {FormWith(f, s, fill) :
        f \in Fields \ TextFields, s \in Text(MaxScalarLen), fill \in Fillers}

\* The forms of concurrent requests: blank or not in the date, the steps and
\* the hazards.
ConcForms ==
    {[FormWith("job_date", jd, EMPTY) EXCEPT !.method_steps = ms, !.hazards = hz] :
        jd \in {EMPTY, <<SP, "a">>},
        ms \in {EMPTY, <<"a", CR, LF, "b">>},
        hz \in {EMPTY, <<"a", BAR, "b">>}}

Requests == DOMAIN pc

\* One frame for every call: data, buf and story at module level.
Frame_Shared(r) == 1

\* The frame holding the locals of request r's call of generate and build_pdf
\* (data, buf, story): one per call.
Frame(r) == r

InitWith(R, F) ==
    /\ form \in [R -> F]
    /\ pc = [r \in R |-> "request"]
    /\ today = StartDate
    /\ ticks = 0
    /\ readDate = [r \in R |-> NoDate]
    /\ data = [r \in R |-> FormWith("company", EMPTY, EMPTY)]
    /\ story = [r \in R |-> <<>>]
    /\ buf = [r \in R |-> <<>>]
    /\ response = [r \in R |-> StreamingResponse(<<>>)]

Init == InitWith({1}, Forms)

InitConc == InitWith({1, 2}, ConcForms)

\* Lines 290-305: generate fills the data dict, reading date.today().
Generate(r) ==
    /\ pc[r] = "request"
    /\ data' = [data EXCEPT ![Frame(r)] = Normalize(form[r], today)]
    /\ readDate' = [readDate EXCEPT ![r] = today]
    /\ pc' = [pc EXCEPT ![r] = "build_pdf"]
    /\ UNCHANGED <<form, today, ticks, story, buf, response>>

\* Lines 51-100: build_pdf makes buf and story and appends the front matter.
BuildFront(r) ==
    /\ pc[r] = "build_pdf"
    /\ buf' = [buf EXCEPT ![Frame(r)] = <<>>]
    /\ story' = [story EXCEPT ![Frame(r)] = FrontBlocks(data[Frame(r)])]
    /\ pc' = [pc EXCEPT ![r] = "method"]
    /\ UNCHANGED <<form, today, ticks, readDate, data, response>>

\* Lines 103-116.
BuildMethod(r) ==
    /\ pc[r] = "method"
    /\ story' = [story EXCEPT ![Frame(r)] = @ \o MethodBlocks(data[Frame(r)])]
    /\ pc' = [pc EXCEPT ![r] = "hazards"]
    /\ UNCHANGED <<form, today, ticks, readDate, data, buf, response>>

\* Lines 119-143.
BuildHazards(r) ==
    /\ pc[r] = "hazards"
    /\ story' = [story EXCEPT ![Frame(r)] = @ \o HazardBlocks(data[Frame(r)])]
    /\ pc' = [pc EXCEPT ![r] = "tail"]
    /\ UNCHANGED <<form, today, ticks, readDate, data, buf, response>>

\* Lines 146-178.
BuildTail(r) ==
    /\ pc[r] = "tail"
    /\ story' = [story EXCEPT ![Frame(r)] = @ \o TailBlocks(data[Frame(r)])]
    /\ pc' = [pc EXCEPT ![r] = "doc_build"]
    /\ UNCHANGED <<form, today, ticks, readDate, data, buf, response>>

\* Line 180: doc.build(story) writes the document into buf.
DocBuild(r) ==
    /\ pc[r] = "doc_build"
    /\ buf' = [buf EXCEPT ![Frame(r)] = @ \o <<Build(story[Frame(r)])>>]
    /\ pc' = [pc EXCEPT ![r] = "return"]
    /\ UNCHANGED <<form, today, ticks, readDate, data, story, response>>

\* Lines 181, 307-312: buf.getvalue() goes back in the response.
Respond(r) ==
    /\ pc[r] = "return"
    /\ response' = [response EXCEPT ![r] = StreamingResponse(buf[Frame(r)])]
    /\ pc' = [pc EXCEPT ![r] = "done"]
    /\ UNCHANGED <<form, today, ticks, readDate, data, story, buf>>

\* Midnight passes.  The clock is followed while a request has yet to read
\* it: nothing reads it afterwards.
Tick ==
    /\ ticks < MaxTicks
    /\ \E r \in Requests : pc[r] = "request"
    /\ today' = NextDay(today)
    /\ ticks' = ticks + 1
    /\ UNCHANGED <<form, pc, readDate, data, story, buf, response>>

Next ==
    \/ \E r \in Requests : Generate(r)
    \/ \E r \in Requests : BuildFront(r)
    \/ \E r \in Requests : BuildMethod(r)
    \/ \E r \in Requests : BuildHazards(r)
    \/ \E r \in Requests : BuildTail(r)
    \/ \E r \in Requests : DocBuild(r)
    \/ \E r \in Requests : Respond(r)
    \/ Tick

\* One request at a time, over every form of Forms.
Spec == Init /\ [][Next]_vars

\* Two requests served concurrently.
SpecConc == InitConc /\ [][Next]_vars

----------------------------------------------------------------------------
(* What the properties are stated with: the lines and segments of an input *)
(* by the positions of its separators, and the places of a story.          *)

\* The positions of s holding a character of C.
Positions(s, C) == {i \in 1..Len(s) : s[i] \in C}

\* The k-th of them; 0 before the first, Len(s)+1 after the last.
SepAt(s, C, k) ==
    IF k = 0 THEN 0
    ELSE IF k > Cardinality(Positions(s, C)) THEN Len(s) + 1
    ELSE CHOOSE p \in Positions(s, C) :
            Cardinality({q \in Positions(s, C) : q < p}) = k - 1

NumSegments(s, C) == Cardinality(Positions(s, C)) + 1

\* The k-th stretch of s between two separators of C.
Segment(s, C, k) == SubSeq(s, SepAt(s, C, k - 1) + 1, SepAt(s, C, k) - 1)

IsBlank(s) == \A i \in 1..Len(s) : s[i] \in Whitespace

\* s without its leading and trailing whitespace.
Trimmed(s) ==
    IF IsBlank(s) THEN EMPTY
    ELSE LET ink == {i \in 1..Len(s) : s[i] \notin Whitespace}
             lo == CHOOSE i \in ink : \A j \in ink : i <= j
             hi == CHOOSE i \in ink : \A j \in ink : j <= i
         IN  SubSeq(s, lo, hi)

NotBlank(s) == ~IsBlank(s)

\* The non-blank lines of an input, in order.
NonBlankLines(s) ==
    SelectSeq([k \in 1..NumSegments(s, LineBreaks) |-> Segment(s, LineBreaks, k)],
              NotBlank)

Bars(ln) == NumSegments(ln, {BAR})

Seg(ln, k) == Trimmed(Segment(ln, {BAR}, k))

IsHeading(b, label) ==
    b.kind = "Paragraph" /\ b.style = "Heading2" /\ b.text = <<"<b>", label, "</b>">>

IsTable(b, title) == b.kind = "Table" /\ b.rows[1][1] = <<title>>

\* The place of the heading with this label; the story holds one.
HeadingAt(st, label) == CHOOSE i \in 1..Len(st) : IsHeading(st[i], label)

\* The place of the table with this title; the story holds one.
TableAt(st, title) == CHOOSE i \in 1..Len(st) : IsTable(st[i], title)

\* The paragraphs from the method heading to the spacer closing the section.
MethodList(st) ==
    LET h == HeadingAt(st, "Method Statement (How the work will be done safely)")
        e == CHOOSE i \in (h + 1)..Len(st) :
                /\ st[i].kind = "Spacer"
                /\ \A j \in (h + 1)..(i - 1) : st[j].kind # "Spacer"
    IN  SubSeq(st, h + 1, e - 1)

\* The rows of the risk-assessment table under its header row.
RaRows(st) == Tail(st[TableAt(st, "Hazard")].rows)

\* The value beside key in a key/value table.
Value(t, key) == LET i == CHOOSE i \in 1..Len(t.rows) : t.rows[i][1] = <<key>>
                 IN  t.rows[i][2]

JobValue(st, key) == Value(st[TableAt(st, "Job Details")], key)

SignValue(st, key) == Value(st[TableAt(st, "Sign-off")], key)

\* The text of the paragraph under a heading.
Under(st, label) ==
    st[HeadingAt(st, label) + 1].text

AfterMethod(r) == pc[r] \in {"hazards", "tail", "doc_build", "return", "done"}

AfterHazards(r) == pc[r] \in {"tail", "doc_build", "return", "done"}

Built(r) == pc[r] \in {"doc_build", "return", "done"}

Done(r) == pc[r] = "done"

----------------------------------------------------------------------------
(* C1: every non-blank line of the hazards input gives one row of the      *)
(* table, in order, and a line with three or more segments between '|'     *)
(* gives the row of its first three segments, each trimmed; the segments   *)
(* after the third are dropped.                                            *)
C1_ThreeSegments ==
    \A r \in Requests :
        LET L == NonBlankLines(form[r].hazards)
        IN  AfterHazards(r) /\ L # <<>> =>
              /\ Len(RaRows(story[r])) = Len(L)
              /\ \A i \in 1..Len(L) :
                    Bars(L[i]) >= 3 =>
                        RaRows(story[r])[i] = <<Seg(L[i], 1), Seg(L[i], 2), Seg(L[i], 3)>>

\* A served request with a line of more than three segments, the first three
\* not empty, and one of them padded.
C1_Witness ==
    \E r \in Requests :
        /\ Done(r)
        /\ \E i \in 1..Len(NonBlankLines(form[r].hazards)) :
              LET ln == NonBlankLines(form[r].hazards)[i]
              IN  /\ Bars(ln) > 3
                  /\ \A k \in 1..3 : Seg(ln, k) # EMPTY
                  /\ RaRows(story[r])[i] = <<Seg(ln, 1), Seg(ln, 2), Seg(ln, 3)>>
        /\ \E i \in 1..Len(NonBlankLines(form[r].hazards)) :
              LET ln == NonBlankLines(form[r].hazards)[i]
              IN  Bars(ln) >= 3 /\ Seg(ln, 3) # Segment(ln, {BAR}, 3)

(* C2: a non-blank line of the hazards input with exactly two segments     *)
(* gives the row of its two trimmed segments and the canned controls text. *)
C2_TwoSegments ==
    \A r \in Requests :
        LET L == NonBlankLines(form[r].hazards)
        IN  AfterHazards(r) /\ L # <<>> =>
              \A i \in 1..Len(L) :
                  Bars(L[i]) = 2 =>
                      /\ i <= Len(RaRows(story[r]))
                      /\ RaRows(story[r])[i] = <<Seg(L[i], 1), Seg(L[i], 2), REVIEW_CONTROLS>>

\* A served request with a two-segment line whose segments are not empty.
C2_Witness ==
    \E r \in Requests :
        /\ Done(r)
        /\ \E i \in 1..Len(NonBlankLines(form[r].hazards)) :
              LET ln == NonBlankLines(form[r].hazards)[i]
              IN  /\ Bars(ln) = 2
                  /\ Seg(ln, 1) # EMPTY /\ Seg(ln, 2) # EMPTY
                  /\ RaRows(story[r])[i][3] = REVIEW_CONTROLS

(* C3: a non-blank line of the hazards input without '|' gives the row     *)
(* [the trimmed line, "Workers/others", the canned controls text].         *)
C3_NoDelimiter ==
    \A r \in Requests :
        LET L == NonBlankLines(form[r].hazards)
        IN  AfterHazards(r) /\ L # <<>> =>
              \A i \in 1..Len(L) :
                  Bars(L[i]) = 1 =>
                      /\ i <= Len(RaRows(story[r]))
                      /\ RaRows(story[r])[i] = <<Trimmed(L[i]), WORKERS_OTHERS, REVIEW_CONTROLS>>

\* A served request with a padded line without '|' among several lines.
C3_Witness ==
    \E r \in Requests :
        /\ Done(r)
        /\ Len(NonBlankLines(form[r].hazards)) > 1
        /\ \E i \in 1..Len(NonBlankLines(form[r].hazards)) :
              LET ln == NonBlankLines(form[r].hazards)[i]
              IN  /\ Bars(ln) = 1
                  /\ Trimmed(ln) # ln
                  /\ RaRows(story[r])[i] = <<Trimmed(ln), WORKERS_OTHERS, REVIEW_CONTROLS>>

(* C4: for a non-blank method_steps input the numbered list has one entry  *)
(* per non-blank line, in the order of the input, and entry k is the       *)
(* number k, ". " and the trimmed line.                                    *)
C4_StepsRoundTrip ==
    \A r \in Requests :
        LET L == NonBlankLines(form[r].method_steps)
        IN  AfterMethod(r) /\ L # <<>> =>
              /\ Len(MethodList(story[r])) = Len(L)
              /\ \A k \in 1..Len(L) :
                    MethodList(story[r])[k] = Body(str(k) \o <<". ">> \o Trimmed(L[k]))

\* A served request with three or more lines, two of them different, one
\* padded, and a blank line between two of them.
C4_Witness ==
    \E r \in Requests :
        LET L == NonBlankLines(form[r].method_steps)
        IN  /\ Done(r)
            /\ Len(L) >= 3
            /\ \E i, j \in 1..Len(L) : Trimmed(L[i]) # Trimmed(L[j])
            /\ \E i \in 1..Len(L) : Trimmed(L[i]) # L[i]
            /\ NumSegments(form[r].method_steps, LineBreaks) > Len(L)
            /\ Len(MethodList(story[r])) = Len(L)

(* C5: for a blank method_steps input the numbered list is the canned list *)
(* of six steps, numbered 1 to 6, and nothing else.                        *)
C5_BlankSteps ==
    \A r \in Requests :
        AfterMethod(r) /\ IsBlank(form[r].method_steps) =>
            /\ Len(MethodList(story[r])) = 6
            /\ MethodList(story[r]) =
                  [k \in 1..6 |-> Body(str(k) \o <<". ">> \o DefaultSteps[k])]

\* A served request whose method_steps is not empty and holds only whitespace
\* and line ends.
C5_Witness ==
    \E r \in Requests :
        /\ Done(r)
        /\ form[r].method_steps # EMPTY
        /\ IsBlank(form[r].method_steps)
        /\ Positions(form[r].method_steps, LineBreaks) # {}
        /\ Len(MethodList(story[r])) = 6

AllBlank(r) == \A f \in Fields : IsBlank(form[r][f])

(* C6: for a blank hazards input the rows under the header row of the      *)
(* risk-assessment table are the canned rows, between 3 and 5 of them,     *)
(* each of 3 columns; with every field blank the document holds the canned *)
(* steps and the canned rows.                                              *)
C6_BlankHazards ==
    \A r \in Requests :
        /\ AfterHazards(r) /\ IsBlank(form[r].hazards) =>
              /\ story[r][TableAt(story[r], "Hazard")].rows[1] = RA_HEADER
              /\ RaRows(story[r]) = DefaultHazardRows
              /\ Len(RaRows(story[r])) \in 3..5
              /\ \A i \in 1..Len(RaRows(story[r])) : Len(RaRows(story[r])[i]) = 3
        /\ Built(r) /\ AllBlank(r) =>
              /\ RaRows(story[r]) = DefaultHazardRows
              /\ MethodList(story[r]) =
                    [k \in 1..6 |-> Body(str(k) \o <<". ">> \o DefaultSteps[k])]

\* A served request with every field blank and whitespace in the hazards.
C6_Witness ==
    \E r \in Requests :
        /\ Done(r)
        /\ AllBlank(r)
        /\ form[r].hazards # EMPTY
        /\ Len(RaRows(story[r])) = 5

JobRecordFields ==
    {"company", "job_title", "location", "job_date", "workers", "supervisor",
     "site_contact", "description", "ppe", "equipment", "prepared_by"}

\* The fields the form marks required: generate gives them no default.
RequiredFields == {"company", "job_title", "location"}

\* The value of field f in the document of request r.
Shown(r, f) ==
    CASE f = "company"      -> JobValue(story[r], "Company")
      [] f = "job_title"    -> JobValue(story[r], "Job title")
      [] f = "location"     -> JobValue(story[r], "Location")
      [] f = "job_date"     -> JobValue(story[r], "Date")
      [] f = "workers"      -> JobValue(story[r], "No. of workers")
      [] f = "supervisor"   -> JobValue(story[r], "Supervisor / Responsible person")
      [] f = "site_contact" -> JobValue(story[r], "Client / Site contact (optional)")
      [] f = "description"  -> Under(story[r], "Scope of Works / Description")
      [] f = "ppe"          -> Under(story[r], "PPE Required")
      [] f = "equipment"    -> Under(story[r], "Tools / Equipment / Materials")
      [] f = "prepared_by"  -> SignValue(story[r], "Prepared by (name)")

\* The default of a blank field: today for the date, the PPE sentence, "N/A".
DefaultOf(r, f) ==
    CASE f = "job_date" -> isoformat(readDate[r])
      [] f = "ppe"      -> PPE_DEFAULT
      [] OTHER          -> NA

NotSpacer(b) == b.kind # "Spacer"

Tag(b) ==
    IF b.kind = "Table" THEN <<"Table">> \o b.rows[1][1]
    ELSE IF b.style = "BodyText" THEN <<"Body">>
    ELSE <<b.style>> \o b.text

\* The blocks of a story but its spacers: the kind of each, and the title of
\* each heading and table.
Skeleton(st) ==
    LET blocks == SelectSeq(st, NotSpacer) IN [i \in 1..Len(blocks) |-> Tag(blocks[i])]

H2(label) == <<"Heading2", "<b>", label, "</b>">>

SkeletonHead ==
    << <<"Title", "<b>", "RAMS - Risk Assessment & Method Statement", "</b>">>,
       <<"Table", "Job Details">>,
       H2("Scope of Works / Description"), <<"Body">>,
       H2("PPE Required"), <<"Body">>,
       H2("Tools / Equipment / Materials"), <<"Body">>,
       H2("Method Statement (How the work will be done safely)") >>

SkeletonTail ==
    << H2("Risk Assessment (Hazards & Control Measures)"),
       <<"Table", "Hazard">>,
       H2("Emergency Arrangements"), <<"Body">>,
       H2("Compliance Notes"), <<"Body">>,
       H2("Disclaimer"), <<"Body">>,
       <<"Table", "Sign-off">> >>

(* C9: the assembled story holds, in this order and once each: the title,  *)
(* the job-details table, scope, PPE and equipment (a heading and one      *)
(* paragraph each), the method heading and its step paragraphs, the        *)
(* risk-assessment heading and table, emergency arrangements, compliance   *)
(* notes, the disclaimer, and last the sign-off table; the compliance and  *)
(* disclaimer texts are the static ones; the document built is that story. *)
C9_SectionOrder ==
    \A r \in Requests :
        /\ Built(r) =>
              LET st == story[r]
                  sk == Skeleton(st)
                  n  == Len(sk) - Len(SkeletonHead) - Len(SkeletonTail)
              IN  /\ n >= 1
                  /\ sk = SkeletonHead \o [i \in 1..n |-> <<"Body">>] \o SkeletonTail
                  /\ st[1].kind = "Paragraph" /\ st[1].style = "Title"
                  /\ IsTable(st[Len(st)], "Sign-off")
                  /\ Under(st, "Compliance Notes") = UK_NOTES
                  /\ Under(st, "Disclaimer") = DISCLAIMER
        /\ Done(r) => response[r].body = <<Build(story[r])>>

\* A served request with two steps of its own and hazards of its own.
C9_Witness ==
    \E r \in Requests :
        /\ Done(r)
        /\ Len(NonBlankLines(form[r].method_steps)) = 2
        /\ NotBlank(form[r].hazards)
        /\ Len(Skeleton(story[r])) = 20

\* The story build_pdf assembles for form f read on date d.
Document(f, d) ==
    LET x == Normalize(f, d)
    IN  FrontBlocks(x) \o MethodBlocks(x) \o HazardBlocks(x) \o TailBlocks(x)

\* The date n midnights after the start.
RECURSIVE DayAfter(_)
DayAfter(n) == IF n = 0 THEN StartDate ELSE NextDay(DayAfter(n - 1))

IsPrefix(a, b) == Len(a) <= Len(b) /\ a = SubSeq(b, 1, Len(a))

(* C8: two served requests with the same form, read on the same date or    *)
(* with a non-blank job_date, have the same record, the same story and the *)
(* same response; a non-blank job_date is, trimmed, the date of the        *)
(* job-details table and of the sign-off table, and a blank one gives both *)
(* the date read.                                                          *)
C8_Deterministic ==
    /\ \A r1, r2 \in Requests :
          /\ Done(r1) /\ Done(r2)
          /\ form[r1] = form[r2]
          /\ readDate[r1] = readDate[r2] \/ NotBlank(form[r1].job_date)
          => /\ data[r1] = data[r2]
             /\ story[r1] = story[r2]
             /\ response[r1] = response[r2]
    /\ \A r \in Requests :
          Built(r) =>
              LET shown == IF NotBlank(form[r].job_date)
                           THEN Trimmed(form[r].job_date)
                           ELSE isoformat(readDate[r])
              IN  /\ JobValue(story[r], "Date") = shown
                  /\ SignValue(story[r], "Date") = shown

\* Two served requests with the same form and a padded job_date, read on
\* different dates.
C8_Witness ==
    \E r1, r2 \in Requests :
        /\ r1 # r2
        /\ Done(r1) /\ Done(r2)
        /\ form[r1] = form[r2]
        /\ NotBlank(form[r1].job_date)
        /\ Trimmed(form[r1].job_date) # form[r1].job_date
        /\ readDate[r1] # readDate[r2]
        /\ response[r1] = response[r2]

(* C10: however the requests interleave, the record of each is the one of  *)
(* its own form and the date it read, its story grows as a prefix of the   *)
(* story of that record, and its response is the document of that story.   *)
C10_Isolation ==
    \A r \in Requests :
        /\ pc[r] # "request" =>
              /\ readDate[r] \in {DayAfter(k) : k \in 0..ticks}
              /\ data[r] = Normalize(form[r], readDate[r])
        /\ pc[r] \notin {"request", "build_pdf"} =>
              /\ story[r] # <<>>
              /\ IsPrefix(story[r], Document(form[r], readDate[r]))
        /\ Built(r) => story[r] = Document(form[r], readDate[r])
        /\ pc[r] \in {"return", "done"} => buf[r] = <<Build(story[r])>>
        /\ Done(r) =>
              response[r] =
                  StreamingResponse(<<Build(Document(form[r], readDate[r]))>>)

\* Request 1 is served with the date after midnight while request 2, of another
\* form, which read the date before midnight, is still building its story.
C10_Witness ==
    /\ Requests = {1, 2}
    /\ Done(1)
    /\ pc[2] = "hazards"
    /\ form[1] # form[2]
    /\ readDate[2] = StartDate
    /\ readDate[1] = NextDay(StartDate)
    /\ response[1].body # <<Build(Document(form[2], readDate[2]))>>

====
